---- MODULE Spec2Model ----
(***************************************************************************)
(* Reciprocal (Helmholtz) pair discovery of scripts/find_helmholtz_pairs.py *)
(* as a state machine: one call of find_pairs is the action Call (lines     *)
(* 44-49: the direction extraction and the shape unpacking), one action per *)
(* loop header of lines 50-53 (the innermost one carries the loop body,     *)
(* lines 54-57), and Return (line 58).                                      *)
(*                                                                          *)
(* Numbers.  Directions are integer 3-vectors.  A unit vector p/|p| is      *)
(* written as the primitive integer vector p (its components divided by     *)
(* their gcd), so normalisation is a real conversion: <<0,0,2>> becomes     *)
(* <<0,0,1>>.  Angles are in tenths of a degree (15.5 degrees is 155).  The *)
(* directions of the model are chosen so that every angle between two of    *)
(* them is one of 0, 45, 60, 90, 120, 135, 180 degrees; float32 rounding is *)
(* not modelled.                                                            *)
(***************************************************************************)
EXTENDS Integers, Sequences, FiniteSets

VARIABLES para, inputKind, thresh, pc, err, cam_dirs, light_dirs,
          n_view, n_light, i, j, li, lj, pairs, tested, prev

vars == <<para, inputKind, thresh, pc, err, cam_dirs, light_dirs,
          n_view, n_light, i, j, li, lj, pairs, tested, prev>>

\* Largest number of views (and of poses) a calibration record of the model has.
MaxView == 3

------------------------------------------------------------------------------
(* Integer helpers *)

Abs(x) == IF x < 0 THEN -x ELSE x

RECURSIVE Gcd(_, _)
Gcd(a, b) == IF b = 0 THEN a ELSE Gcd(b, a % b)

RECURSIVE SumSq(_)
SumSq(v) == IF Len(v) = 0 THEN 0 ELSE Head(v) * Head(v) + SumSq(Tail(v))

RECURSIVE GcdAll(_)
GcdAll(v) == IF Len(v) = 0 THEN 0 ELSE Gcd(Abs(Head(v)), GcdAll(Tail(v)))

RECURSIVE Dot(_, _)
Dot(a, b) == IF Len(a) = 0 THEN 0 ELSE Head(a) * Head(b) + Dot(Tail(a), Tail(b))

------------------------------------------------------------------------------
(* numpy arrays: a shape and the nested data *)

\* The shape np.asarray cannot give: the nested list is ragged.
Ragged == <<-1>>

\* Shape of a nested Python list of the given nesting depth (depth 0: a number).
\* An empty list has shape (0,) whatever its depth.
RECURSIVE ListShape(_, _)
ListShape(x, depth) ==
    IF depth = 0 THEN << >>
    ELSE IF Len(x) = 0 THEN <<0>>
    ELSE LET first == ListShape(x[1], depth - 1)
         IN  IF first # Ragged
                /\ \A k \in 1..Len(x) : ListShape(x[k], depth - 1) = first
             THEN <<Len(x)>> \o first
             ELSE Ragged

\* np.asarray(x, dtype=np.float32) of a nested list: ValueError when ragged.
AsArray(x, depth) ==
    LET s == ListShape(x, depth)
    IN  [ok |-> s # Ragged, shape |-> s, data |-> x]

\* The divisor of line 16-17 for one vector, in the primitive-vector encoding:
\* a zero norm is replaced by 1, any other norm divides out the gcd.
NormDivisor(v) == IF SumSq(v) = 0 THEN 1 ELSE GcdAll(v)

NormalizeVec(v) == [k \in 1..Len(v) |-> v[k] \div NormDivisor(v)]

RECURSIVE NormalizeData(_, _)
NormalizeData(d, depth) ==
    IF depth <= 1 THEN NormalizeVec(d)
    ELSE [k \in 1..Len(d) |-> NormalizeData(d[k], depth - 1)]

\* normalize with the division done in place (v /= n): a faulty variant.
NormalizeInPlace(a) ==
    LET res == NormalizeData(a.data, Len(a.shape))
    IN  [out |-> [shape |-> a.shape, data |-> res],
         v   |-> [shape |-> a.shape, data |-> res]]

\* normalize(v) over the last axis.  out is the returned array (v / n, a new
\* array); v is the operand array as the call leaves it: only the freshly
\* computed norm array n is written (line 17), never v.
Normalize(a) ==
    [out |-> [shape |-> a.shape, data |-> NormalizeData(a.data, Len(a.shape))],
     v   |-> a]

------------------------------------------------------------------------------
(* Direction extractor *)

\* get_cam_dirs: -poses[:, :3, 2], normalised.  Indexing an array of fewer
\* than three dimensions with three indices is an IndexError.
GetCamDirs(poses) ==
    IF Len(poses.shape) < 3
    THEN [ok |-> FALSE, dirs |-> << >>]
    ELSE LET col == [k \in 1..Len(poses.data) |->
                        << -poses.data[k][1][3],
                           -poses.data[k][2][3],
                           -poses.data[k][3][3] >>]
         IN  [ok |-> TRUE,
              dirs |-> Normalize([shape |-> <<Len(col), 3>>, data |-> col]).out.data]

\* The broadcast with the new axis put second (dirs[:, None]), a faulty
\* variant: the result is indexed [light][view].
BroadcastSecondAxis(a, n) ==
    [shape |-> <<Len(a.data), n>> \o Tail(a.shape),
     data |-> [l \in 1..Len(a.data) |-> [k \in 1..n |-> a.data[l]]]]

\* np.broadcast_to(dirs[None, ...], (n,) + dirs.shape)
BroadcastTo(a, n) ==
    [shape |-> <<n>> \o a.shape, data |-> [k \in 1..n |-> a.data]]

\* Whether line 29/32's array is the caller's own object: np.asarray copies a
\* list and returns a float32 ndarray as it is; the broadcast view of the
\* shared set is read-only.
LightAliasesInput(p, kind) == kind = "ndarray" /\ ~p.light_is_same

\* get_light_dirs: ok is FALSE when np.asarray raises ValueError (ragged);
\* after is the caller's light_direction as the call leaves it.
GetLightDirs(p, kind) ==
    LET raw == AsArray(p.light_direction.val, p.light_direction.nest)
        arr == IF p.light_is_same THEN BroadcastTo(raw, p.n_view) ELSE raw
        res == Normalize(arr)
    IN  IF ~raw.ok
        THEN [ok |-> FALSE, out |-> raw, after |-> p.light_direction]
        ELSE [ok |-> TRUE, out |-> res.out,
              after |-> IF LightAliasesInput(p, kind)
                        THEN [p.light_direction EXCEPT !.val = res.v.data]
                        ELSE p.light_direction]

------------------------------------------------------------------------------
(* Geometry utilities *)

\* The squared norm of the vector a primitive vector stands for: 1 for a unit
\* vector, 0 for the zero vector.  den is the squared length of the encoding.
EncLen2(p) == IF SumSq(p) = 0 THEN 1 ELSE SumSq(p)

\* The arccos without np.rad2deg, a faulty variant: the angle stays in radians
\* (0, pi/6, pi/4, pi/3, pi/2, ... in tenths, rounded down).
ArcCosRad(num, den2) ==
    LET q == 4 * num * num
        a == CASE q = 0            -> 15
               [] q = den2         -> 10
               [] q = 2 * den2     -> 7
               [] q = 3 * den2     -> 5
               [] q = 4 * den2     -> 0
    IN  IF num >= 0 THEN a ELSE 31 - a

\* np.rad2deg(np.arccos(c)) in tenths of a degree, for c = num / sqrt(den2)
\* already clipped to [-1, 1].
ArcCosDeg(num, den2) ==
    LET q == 4 * num * num
        a == CASE q = 0            -> 900
               [] q = den2         -> 600
               [] q = 2 * den2     -> 450
               [] q = 3 * den2     -> 300
               [] q = 4 * den2     -> 0
    IN  IF num >= 0 THEN a ELSE 1800 - a

\* angle_between(a, b): normalise both, dot product, clip to [-1, 1], arccos.
AngleBetween(a, b) ==
    LET na   == NormalizeVec(a)
        nb   == NormalizeVec(b)
        num  == Dot(na, nb)
        den2 == EncLen2(na) * EncLen2(nb)
    IN  IF num * num > den2
        THEN (IF num > 0 THEN 0 ELSE 1800)
        ELSE ArcCosDeg(num, den2)

------------------------------------------------------------------------------
(* Reciprocal pair search *)

\* The inner view loop started at 0, a faulty variant.
JStartZero(iv) == 0

\* range(i + 1, n_view), line 51
JStart(iv) == iv + 1

\* Faulty variants of the test of line 56: either angle within the threshold
\* is enough; the comparison is strict; the second comparison is turned
\* around.
AcceptEither(ang1, ang2, t) == ang1 <= t \/ ang2 <= t

AcceptStrict(ang1, ang2, t) == ang1 < t /\ ang2 < t

AcceptFlipped(ang1, ang2, t) == ang1 <= t /\ ang2 >= t

\* line 56
Accept(ang1, ang2, t) == ang1 <= t /\ ang2 <= t

\* The unpacking taking the leading dimensions and ignoring the rest, a
\* faulty variant.
UnpackLoose(shape) == Len(shape) >= 3

\* n_view, n_light, _ = light_dirs.shape (line 48): ValueError unless the
\* array has exactly three dimensions.
UnpackOk(shape) == Len(shape) = 3

NoPrev == [t |-> -1, pairs |-> << >>]

Fail(e) ==
    /\ pc' = "error"
    /\ err' = e

\* find_pairs lines 44-49.  t is the caller's threshold.
StartCall(t) ==
    /\ thresh' = t
    /\ tested' = FALSE
    /\ pairs' = << >>
    /\ i' = 0 /\ j' = 0 /\ li' = 0 /\ lj' = 0
    /\ LET poses == AsArray(para.pose_c2w, 3)
           cams  == GetCamDirs(poses)
           ld    == GetLightDirs(para, inputKind)
       IN  IF ~cams.ok
           THEN /\ Fail("IndexError")
                /\ UNCHANGED <<para, cam_dirs, light_dirs, n_view, n_light>>
           ELSE IF ~ld.ok
           THEN /\ Fail("ValueError")
                /\ cam_dirs' = cams.dirs
                /\ UNCHANGED <<para, light_dirs, n_view, n_light>>
           ELSE /\ para' = [para EXCEPT !.light_direction = ld.after]
                /\ cam_dirs' = cams.dirs
                /\ light_dirs' = ld.out.data
                /\ IF UnpackOk(ld.out.shape)
                   THEN /\ n_view' = ld.out.shape[1]
                        /\ n_light' = ld.out.shape[2]
                        /\ pc' = "for_i"
                        /\ err' = "none"
                   ELSE /\ Fail("ValueError")
                        /\ UNCHANGED <<n_view, n_light>>
    /\ UNCHANGED inputKind

\* The first call of find_pairs on the record.
Call(t) ==
    /\ pc = "idle"
    /\ StartCall(t)
    /\ UNCHANGED prev

\* The caller invokes find_pairs again on the same record with a larger
\* threshold, keeping the list the previous call returned.
CallAgain(t) ==
    /\ pc = "done"
    /\ t > thresh
    /\ prev' = [t |-> thresh, pairs |-> pairs]
    /\ StartCall(t)

\* for i in range(n_view), line 50
ForI ==
    /\ pc = "for_i"
    /\ IF i < n_view
       THEN /\ j' = JStart(i)
            /\ pc' = "for_j"
       ELSE /\ pc' = "return"
            /\ UNCHANGED j
    /\ UNCHANGED <<para, inputKind, thresh, err, cam_dirs, light_dirs,
                   n_view, n_light, i, li, lj, pairs, tested, prev>>

\* for j in range(i + 1, n_view), line 51
ForJ ==
    /\ pc = "for_j"
    /\ IF j < n_view
       THEN /\ li' = 0
            /\ pc' = "for_li"
            /\ UNCHANGED i
       ELSE /\ i' = i + 1
            /\ pc' = "for_i"
            /\ UNCHANGED li
    /\ UNCHANGED <<para, inputKind, thresh, err, cam_dirs, light_dirs,
                   n_view, n_light, j, lj, pairs, tested, prev>>

\* for li in range(n_light), line 52
ForLi ==
    /\ pc = "for_li"
    /\ IF li < n_light
       THEN /\ lj' = 0
            /\ pc' = "for_lj"
            /\ UNCHANGED j
       ELSE /\ j' = j + 1
            /\ pc' = "for_j"
            /\ UNCHANGED lj
    /\ UNCHANGED <<para, inputKind, thresh, err, cam_dirs, light_dirs,
                   n_view, n_light, i, li, pairs, tested, prev>>

\* Whether numpy can multiply two vectors of these lengths element by element
\* (line 39); otherwise a * b raises ValueError.
Broadcastable(m, n) == m = n \/ m = 1 \/ n = 1

\* for lj in range(n_light) and the loop body, lines 53-57.  cam_dirs[j]
\* raises IndexError past the end of cam_dirs (i < j, so cam_dirs[i] is then
\* in range); a light vector that is not a 3-vector cannot be multiplied with
\* a camera direction.  tested records that line 54 has been reached.
ForLj ==
    /\ pc = "for_lj"
    /\ IF lj >= n_light
       THEN /\ li' = li + 1
            /\ pc' = "for_li"
            /\ UNCHANGED <<lj, err, pairs, tested>>
       ELSE /\ tested' = TRUE
            /\ IF j + 1 > Len(cam_dirs) \/ i + 1 > Len(cam_dirs)
               THEN /\ Fail("IndexError")
                    /\ UNCHANGED <<li, lj, pairs>>
               ELSE IF \/ ~Broadcastable(Len(light_dirs[i + 1][li + 1]), Len(cam_dirs[j + 1]))
                       \/ ~Broadcastable(Len(light_dirs[j + 1][lj + 1]), Len(cam_dirs[i + 1]))
               THEN /\ Fail("ValueError")
                    /\ UNCHANGED <<li, lj, pairs>>
               ELSE LET ang1 == AngleBetween(light_dirs[i + 1][li + 1], cam_dirs[j + 1])
                        ang2 == AngleBetween(light_dirs[j + 1][lj + 1], cam_dirs[i + 1])
                    IN  /\ pairs' = IF Accept(ang1, ang2, thresh)
                                    THEN Append(pairs, <<<<i, li>>, <<j, lj>>>>)
                                    ELSE pairs
                        /\ lj' = lj + 1
                        /\ UNCHANGED <<li, pc, err>>
    /\ UNCHANGED <<para, inputKind, thresh, cam_dirs, light_dirs,
                   n_view, n_light, i, j, prev>>

\* return pairs, line 58
Return ==
    /\ pc = "return"
    /\ pc' = "done"
    /\ UNCHANGED <<para, inputKind, thresh, err, cam_dirs, light_dirs,
                   n_view, n_light, i, j, li, lj, pairs, tested, prev>>

\* Thresholds a caller passes, in tenths of a degree: 0, 45 and 180 degrees.
Thresholds == {0, 450, 1800}

Next ==
    \/ \E t \in Thresholds : Call(t)
    \/ ForI
    \/ ForJ
    \/ ForLi
    \/ ForLj
    \/ Return

NextRecall ==
    \/ Next
    \/ \E t \in Thresholds : CallAgain(t)

------------------------------------------------------------------------------
(* Inputs *)

\* Camera-to-world poses: looking along -z, looking along +z (half a turn
\* about x), and a degenerate pose whose third rotation column is zero.
IdentityPose == << <<1, 0, 0, 0>>, <<0, 1, 0, 0>>, <<0, 0, 1, 0>>, <<0, 0, 0, 1>> >>
FlipPose     == << <<1, 0, 0, 0>>, <<0, -1, 0, 0>>, <<0, 0, -1, 0>>, <<0, 0, 0, 1>> >>
DegeneratePose == << <<1, 0, 0, 0>>, <<0, 1, 0, 0>>, <<0, 0, 0, 0>>, <<0, 0, 0, 1>> >>

PoseSet == {IdentityPose, FlipPose, DegeneratePose}

\* Light-direction sets (one view's lights): unit, scaled, oblique and
\* zero-length directions.
LightSeqs ==
    { << <<0, 0, -1>> >>,
      << <<0, 0, 0>> >>,
      << <<0, 0, 0>>, <<0, 0, 2>> >>,
      << <<1, 0, -1>>, <<0, 0, -1>> >> }

SeqsUpTo(S, lo, hi) == UNION {[1..n -> S] : n \in lo..hi}

\* Calibration records that satisfy the data model: n_view >= 1 poses, and a
\* light_direction of shape (n_light, 3) when shared, (n_view, n_light, 3)
\* when per view.
ValidCalibrations ==
    { [n_view |-> Len(ps), pose_c2w |-> ps, light_is_same |-> TRUE,
       light_direction |-> [nest |-> 2, val |-> ls]] :
        ps \in SeqsUpTo(PoseSet, 1, MaxView), ls \in LightSeqs }
    \cup
    { [n_view |-> Len(c.ps), pose_c2w |-> c.ps, light_is_same |-> FALSE,
       light_direction |-> [nest |-> 3, val |-> c.ls]] :
        c \in { d \in UNION { [ps : [1..n -> PoseSet], ls : [1..n -> LightSeqs]] :
                                 n \in 1..MaxView } :
                  \A k \in 1..Len(d.ls) : Len(d.ls[k]) = Len(d.ls[1]) } }

\* Records of any structure: the pose count, n_view and the light data are
\* chosen independently, the light data flat or nested whatever the flag,
\* per-view sets of any lengths, empty lists included.
AnyPoseSet == {IdentityPose, FlipPose}

AnyLightSeqs == { << >>, << <<0, 0, -1>> >>, << <<0, 0, 0>>, <<0, 0, 2>> >> }

AnyCalibrations ==
    { [n_view |-> n, pose_c2w |-> ps, light_is_same |-> f, light_direction |-> ld] :
        n \in 0..MaxView,
        ps \in SeqsUpTo(AnyPoseSet, 0, MaxView),
        f \in BOOLEAN,
        ld \in { [nest |-> 2, val |-> ls] : ls \in AnyLightSeqs }
               \cup { [nest |-> 3, val |-> lss] :
                        lss \in SeqsUpTo(AnyLightSeqs, 0, MaxView) } }

\* A float32 ndarray is rectangular and keeps its trailing dimensions even
\* when empty; the nested-list form of the model stands for one only when the
\* list is neither ragged nor empty.
CanBeNdarray(p) ==
    LET s == ListShape(p.light_direction.val, p.light_direction.nest)
    IN  s # Ragged /\ Len(s) = p.light_direction.nest

InitLocals ==
    /\ thresh = 0
    /\ pc = "idle"
    /\ err = "none"
    /\ cam_dirs = << >>
    /\ light_dirs = << >>
    /\ n_view = 0 /\ n_light = 0
    /\ i = 0 /\ j = 0 /\ li = 0 /\ lj = 0
    /\ pairs = << >>
    /\ tested = FALSE
    /\ prev = NoPrev

\* Well-formed records loaded from params.json (Python lists).
Init ==
    /\ para \in ValidCalibrations
    /\ inputKind = "list"
    /\ InitLocals

\* Any record, passed as lists or as float32 arrays.
InitAny ==
    /\ para \in AnyCalibrations
    /\ inputKind \in {"list", "ndarray"}
    /\ inputKind = "ndarray" => CanBeNdarray(para)
    /\ InitLocals

Spec == Init /\ [][Next]_vars

SpecAny == InitAny /\ [][Next]_vars

\* Well-formed records, called once and then again with larger thresholds.
SpecRecall == Init /\ [][NextRecall]_vars

------------------------------------------------------------------------------
(* Properties.  The directions below are recomputed from the calibration    *)
(* record, not read from the locals of find_pairs.                          *)

Range(s) == {s[k] : k \in 1..Len(s)}

ZeroVec == <<0, 0, 0>>

\* The raw (unnormalised) directions of a well-formed record, 1-based.
RawLight(p, v, l) ==
    IF p.light_is_same THEN p.light_direction.val[l] ELSE p.light_direction.val[v][l]

RawCam(p, v) ==
    << -p.pose_c2w[v][1][3], -p.pose_c2w[v][2][3], -p.pose_c2w[v][3][3] >>

NumLights(p) ==
    IF p.light_is_same THEN Len(p.light_direction.val)
    ELSE Len(p.light_direction.val[1])

\* ang1 and ang2 of the pair ((a, la), (b, lb)), 0-based as in the result.
Ang1(p, a, la, b) == AngleBetween(NormalizeVec(RawLight(p, a + 1, la + 1)),
                                  NormalizeVec(RawCam(p, b + 1)))

Ang2(p, a, b, lb) == AngleBetween(NormalizeVec(RawLight(p, b + 1, lb + 1)),
                                  NormalizeVec(RawCam(p, a + 1)))

Candidates(p) ==
    { <<<<a, la>>, <<b, lb>>>> :
        a \in 0..(p.n_view - 1), b \in 0..(p.n_view - 1),
        la \in 0..(NumLights(p) - 1), lb \in 0..(NumLights(p) - 1) }

ExpectedPairs(p, t) ==
    { r \in Candidates(p) :
        /\ r[1][1] < r[2][1]
        /\ Ang1(p, r[1][1], r[1][2], r[2][1]) <= t
        /\ Ang2(p, r[1][1], r[2][1], r[2][2]) <= t }

\* C1: on every well-formed calibration record find_pairs ends without an
\* error, and the list it returns holds exactly the tuples ((i, li), (j, lj))
\* with i < j, all indices in range, and both angles within the threshold
\* (inclusive), each once.
C1_ExactPairs ==
    /\ pc # "error"
    /\ pc = "done" =>
          /\ Range(pairs) = ExpectedPairs(para, thresh)
          /\ Len(pairs) = Cardinality(Range(pairs))

\* A call that accepted some candidates and rejected others.
C1_Witness ==
    /\ pc = "done"
    /\ Len(pairs) >= 2
    /\ \E r \in Candidates(para) : r[1][1] < r[2][1] /\ r \notin Range(pairs)
    /\ \E r \in Range(pairs) : Ang1(para, r[1][1], r[1][2], r[2][1]) = thresh

LexLess(x, y) ==
    \/ x[1] < y[1]
    \/ x[1] = y[1] /\ x[2] < y[2]
    \/ x[1] = y[1] /\ x[2] = y[2] /\ x[3] < y[3]
    \/ x[1] = y[1] /\ x[2] = y[2] /\ x[3] = y[3] /\ x[4] < y[4]

\* (i, j, li, lj) of a record ((i, li), (j, lj))
OrderKey(r) == <<r[1][1], r[2][1], r[1][2], r[2][2]>>

\* C2: at every moment the pair list is strictly increasing in the
\* lexicographic order of (i, j, li, lj), and every record has
\* A.viewIndex < B.viewIndex.
C2_StrictLexOrder ==
    /\ \A k \in 1..Len(pairs) : pairs[k][1][1] < pairs[k][2][1]
    /\ \A k \in 1..(Len(pairs) - 1) : LexLess(OrderKey(pairs[k]), OrderKey(pairs[k + 1]))

\* A returned list whose records differ in i, in j and in the light indices.
C2_Witness ==
    /\ pc = "done"
    /\ \E x, y \in Range(pairs) : x[1][1] < y[1][1]
    /\ \E x, y \in Range(pairs) : x[1][1] = y[1][1] /\ x[2][1] < y[2][1]
    /\ \E x, y \in Range(pairs) : x[1] = y[1] /\ x[2][1] = y[2][1] /\ x[2][2] < y[2][2]

RECURSIVE IsSubseq(_, _)
IsSubseq(s, t) ==
    IF Len(s) = 0 THEN TRUE
    ELSE IF Len(t) = 0 THEN FALSE
    ELSE IF Head(s) = Head(t) THEN IsSubseq(Tail(s), Tail(t))
    ELSE IsSubseq(s, Tail(t))

\* C3: the list returned for a threshold is a subsequence (same pairs, same
\* relative order) of the list returned for the same record at any larger
\* threshold.
C3_ThresholdMonotone ==
    (pc = "done" /\ prev # NoPrev) =>
        /\ prev.t <= thresh
        /\ IsSubseq(prev.pairs, pairs)

\* Two calls on one record where the larger threshold added pairs.
C3_Witness ==
    /\ pc = "done"
    /\ prev # NoPrev
    /\ Len(prev.pairs) > 0
    /\ Len(prev.pairs) < Len(pairs)

\* A record with n_view = 0 or 1 whose poses and light data agree with it.
FewViews(p) ==
    /\ p.n_view \in {0, 1}
    /\ Len(p.pose_c2w) = p.n_view
    /\ IF p.light_is_same
       THEN p.light_direction.nest = 2 /\ Len(p.light_direction.val) > 0
       ELSE /\ p.light_direction.nest = 3
            /\ Len(p.light_direction.val) = p.n_view
            /\ \A k \in 1..Len(p.light_direction.val) : Len(p.light_direction.val[k]) > 0

\* C4: a call with n_view = 0 or n_view = 1 never ends in an error and
\* returns an empty pair list.
C4_FewViewsEmpty ==
    FewViews(para) => pc # "error" /\ pairs = << >>

\* n_view differs from the number of poses, or from the number of per-view
\* light sets.
Inconsistent(p) ==
    \/ p.n_view # Len(p.pose_c2w)
    \/ ~p.light_is_same /\ p.light_direction.nest = 3
       /\ Len(p.light_direction.val) # p.n_view

\* The light data has the shape the flag announces: (n_light, 3) when shared,
\* (views, n_light, 3) when per view.
LightShapeAgrees(p) ==
    /\ p.light_direction.nest = IF p.light_is_same THEN 2 ELSE 3
    /\ Len(ListShape(p.light_direction.val, p.light_direction.nest))
          = p.light_direction.nest

\* C5: on a record whose n_view is inconsistent with its poses or light sets
\* (and which is well-formed otherwise) the search performs no angular test
\* and returns no pair list.
C5_InconsistentRejected ==
    (Inconsistent(para) /\ LightShapeAgrees(para)) =>
        ~tested /\ pc \notin {"return", "done"}

\* The light-direction data is nested per view although the flag says shared,
\* flat although the flag says per view, or ragged.
ShapeMismatch(p) ==
    LET s == ListShape(p.light_direction.val, p.light_direction.nest)
    IN  \/ s = Ragged
        \/ p.light_is_same /\ Len(s) = 3
        \/ ~p.light_is_same /\ Len(s) = 2

\* C6: a call on light data whose shape disagrees with light_is_same, or whose
\* per-view light counts differ, ends in an error before line 54 is reached,
\* with no pair collected.
C6_ShapeMismatchRejected ==
    (ShapeMismatch(para) /\ pc # "idle") =>
        /\ pc = "error"
        /\ ~tested
        /\ pairs = << >>

\* A rejected call on per-view sets of different lengths, the poses in order.
C6_Witness ==
    /\ pc = "error"
    /\ err = "ValueError"
    /\ ListShape(para.light_direction.val, para.light_direction.nest) = Ragged
    /\ Len(para.pose_c2w) = para.n_view
    /\ para.n_view >= 2

\* The records of the pair list involve no zero-length light or camera
\* direction.
NoZeroInPairs ==
    \A r \in Range(pairs) :
        /\ RawLight(para, r[1][1] + 1, r[1][2] + 1) # ZeroVec
        /\ RawLight(para, r[2][1] + 1, r[2][2] + 1) # ZeroVec
        /\ RawCam(para, r[1][1] + 1) # ZeroVec
        /\ RawCam(para, r[2][1] + 1) # ZeroVec

\* Zero-length inputs are extracted as zero vectors and are at 90 degrees to
\* every extracted direction (looked at when the loops start: the extracted
\* directions are not assigned afterwards).
ZeroIsRightAngle ==
    (pc = "for_i" /\ i = 0) =>
        /\ \A v \in 1..Len(cam_dirs) :
              RawCam(para, v) = ZeroVec =>
                 /\ cam_dirs[v] = ZeroVec
                 /\ \A w \in 1..Len(light_dirs) : \A l \in 1..Len(light_dirs[w]) :
                       AngleBetween(light_dirs[w][l], cam_dirs[v]) = 900
        /\ \A w \in 1..Len(light_dirs) : \A l \in 1..Len(light_dirs[w]) :
              RawLight(para, w, l) = ZeroVec =>
                 /\ light_dirs[w][l] = ZeroVec
                 /\ \A v \in 1..Len(cam_dirs) :
                       AngleBetween(light_dirs[w][l], cam_dirs[v]) = 900

\* C7 as stated: a zero-length direction is no error, is at 90 degrees to
\* everything, and for every threshold no returned pair involves one.
C7_ZeroNeverPaired ==
    /\ pc # "error"
    /\ ZeroIsRightAngle
    /\ NoZeroInPairs

\* C7 as amended: a zero-length direction is no error, is at 90 degrees to
\* everything, and for every threshold below 90 degrees no returned pair
\* involves one.
C7_ZeroNotPairedBelow90 ==
    /\ pc # "error"
    /\ ZeroIsRightAngle
    /\ thresh < 900 => NoZeroInPairs

\* A call below 90 degrees that returned pairs although zero-length light and
\* camera directions took part in its tests.
C7_Witness ==
    /\ pc = "done"
    /\ thresh < 900
    /\ pairs # << >>
    /\ \E v \in 1..para.n_view : RawCam(para, v) = ZeroVec
    /\ \E v \in 1..para.n_view : \E l \in 1..NumLights(para) :
          RawLight(para, v, l) = ZeroVec

\* C8: on a well-formed record get_light_dirs yields n_view rows of n_light
\* 3-vectors, entry [v][l] the normalised l-th direction of the shared set,
\* or of view v's own set (looked at when the loops start).
C8_BroadcastCorrect ==
    (pc = "for_i" /\ i = 0) =>
        /\ Len(light_dirs) = para.n_view
        /\ \A v \in 1..para.n_view :
              /\ Len(light_dirs[v]) = NumLights(para)
              /\ \A l \in 1..NumLights(para) :
                    /\ Len(light_dirs[v][l]) = 3
                    /\ light_dirs[v][l] = NormalizeVec(RawLight(para, v, l))

\* A shared set of two lights, one of them not of unit length, seen from
\* three views.
C8_Witness ==
    /\ pc = "for_i"
    /\ para.light_is_same
    /\ para.n_view = 3
    /\ Len(light_dirs) = 3
    /\ Len(light_dirs[3]) = 2
    /\ \E l \in 1..2 : light_dirs[3][l] # para.light_direction.val[l]

\* C9: no step of find_pairs changes the calibration record.
C9_InputUnchanged == [][para' = para /\ inputKind' = inputKind]_vars

\* A completed call on per-view float32 arrays holding a zero-length
\* direction and one that is not of unit length.
C9_Witness ==
    /\ pc = "done"
    /\ inputKind = "ndarray"
    /\ ~para.light_is_same
    /\ \E v \in 1..Len(para.light_direction.val) :
          \E l \in 1..Len(para.light_direction.val[v]) :
             para.light_direction.val[v][l] = ZeroVec
    /\ \E v \in 1..Len(para.light_direction.val) :
          \E l \in 1..Len(para.light_direction.val[v]) :
             para.light_direction.val[v][l] # NormalizeVec(para.light_direction.val[v][l])

\* The lights of view a within the threshold of camera b.
LightsToward(p, a, b, t) ==
    { l \in 0..(NumLights(p) - 1) :
        AngleBetween(NormalizeVec(RawLight(p, a + 1, l + 1)),
                     NormalizeVec(RawCam(p, b + 1))) <= t }

ViewPairs(p) ==
    { vp \in (0..(p.n_view - 1)) \X (0..(p.n_view - 1)) : vp[1] < vp[2] }

RECURSIVE SumProducts(_, _, _)
SumProducts(S, p, t) ==
    IF S = {} THEN 0
    ELSE LET vp == CHOOSE x \in S : TRUE
         IN  Cardinality(LightsToward(p, vp[1], vp[2], t))
               * Cardinality(LightsToward(p, vp[2], vp[1], t))
             + SumProducts(S \ {vp}, p, t)

\* C10: for every view pair i < j the accepted (li, lj) form the product
\* L_i x L_j of the lights of i within the threshold of camera j and the
\* lights of j within the threshold of camera i, and the length of the result
\* is the sum of |L_i| * |L_j| over the view pairs.
C10_CartesianProduct ==
    pc = "done" =>
        /\ \A vp \in ViewPairs(para) :
              { <<r[1][2], r[2][2]>> :
                  r \in { x \in Range(pairs) : x[1][1] = vp[1] /\ x[2][1] = vp[2] } }
              = LightsToward(para, vp[1], vp[2], thresh)
                  \X LightsToward(para, vp[2], vp[1], thresh)
        /\ Len(pairs) = SumProducts(ViewPairs(para), para, thresh)

\* A view pair with two lights each where one light of i and both lights of j
\* are accepted.
C10_Witness ==
    /\ pc = "done"
    /\ \E vp \in ViewPairs(para) :
          /\ Cardinality(LightsToward(para, vp[1], vp[2], thresh)) = 1
          /\ Cardinality(LightsToward(para, vp[2], vp[1], thresh)) = 2
          /\ NumLights(para) = 2

====
